---- MODULE Spec2Model ----
(***************************************************************************)
(* A model of the value renderer of package pretty (src/formatter.go,      *)
(* lines 497-1154): formatter.Format and the recursive printer.printValue, *)
(* with the process-wide humanize layout tracker (currOutputLine,          *)
(* sawCloseBracketLast).                                                   *)
(*                                                                         *)
(* Text is a sequence of one-character strings, so that splitting,         *)
(* quoting, prefix and substring tests are computed, not assumed.  The     *)
(* recursion of printValue is an explicit stack of frames: one action per  *)
(* piece of code between two recursive calls.  The bytes recorded in out   *)
(* are those printValue hands to its writer; outInd records, per byte, how *)
(* many indent() scopes the receiving writer is nested in.  Column         *)
(* alignment (text/tabwriter) and line prefixing (kr/text) are libraries   *)
(* outside the package and are not modelled beyond that.                   *)
(***************************************************************************)
EXTENDS Integers, Sequences, FiniteSets, TLC

\* ------------------------------------------------------------------ bounds
\* Number of top-level render calls explored in one behaviour.
MaxRenders == 3
\* Number of printValue frames after which the Go runtime's stack limit is
\* taken to be hit (every terminating render of the inputs below needs fewer).
MaxStack == 30

\* p.depth > 10 (printValue)
DepthLimit == 10

\* -------------------------------------------------------------- text helpers
Max(S) == CHOOSE m \in S : \A n \in S : n <= m

IsPrefix(p, s) == Len(p) <= Len(s) /\ SubSeq(s, 1, Len(p)) = p

Occurrences(s, sub) ==
    {i \in 0..(Len(s) - Len(sub)) : SubSeq(s, i + 1, i + Len(sub)) = sub}

Contains(s, sub) == Occurrences(s, sub) # {}

\* strings.ContainsRune
ContainsRune(s, c) == \E i \in DOMAIN s : s[i] = c

\* lines := strings.Split(s, "\n"); lines[len(lines)-1]
LastLine(s) ==
    LET nl == {i \in DOMAIN s : s[i] = "\n"}
    IN  IF nl = {} THEN s ELSE SubSeq(s, Max(nl) + 1, Len(s))

WhiteSpace == {" ", "\t", "\n", "\r"}

\* s != "" && strings.TrimSpace(s) == ""
OnlySpace(s) == s # <<>> /\ \A i \in DOMAIN s : s[i] \in WhiteSpace

EscapeChar(c) ==
    CASE c = "\"" -> <<"\\", "\"">>
      [] c = "\\" -> <<"\\", "\\">>
      [] c = "\n" -> <<"\\", "n">>
      [] c = "\t" -> <<"\\", "t">>
      [] c = "\r" -> <<"\\", "r">>
      [] OTHER    -> <<c>>

RECURSIVE Escape(_)
Escape(s) == IF s = <<>> THEN <<>> ELSE EscapeChar(Head(s)) \o Escape(Tail(s))

\* strconv.Quote
Quote(s) == <<"\"">> \o Escape(s) \o <<"\"">>

DigitChars ==
    <<"0", "1", "2", "3", "4", "5", "6", "7", "8", "9", "a", "b", "c", "d", "e", "f">>

RECURSIVE Radix(_, _)
Radix(n, b) ==
    IF n < b THEN <<DigitChars[n + 1]>>
    ELSE Radix(n \div b, b) \o <<DigitChars[(n % b) + 1]>>

\* %#v of an int64
FormatInt(n) == IF n < 0 THEN <<"-">> \o Radix(0 - n, 10) ELSE Radix(n, 10)

\* %#v of a uint64 or uintptr
FormatUint(n) == <<"0", "x">> \o Radix(n, 16)

\* %#v of a bool
FormatBool(b) == IF b THEN <<"t", "r", "u", "e">> ELSE <<"f", "a", "l", "s", "e">>

\* %#v of a float64 held in tenths (15 is 1.5, 20 is 2)
FormatFloat(t) ==
    LET a == IF t < 0 THEN 0 - t ELSE t
        sign == IF t < 0 THEN <<"-">> ELSE <<>>
    IN  IF a % 10 = 0 THEN sign \o Radix(a \div 10, 10)
        ELSE sign \o Radix(a \div 10, 10) \o <<".">> \o Radix(a % 10, 10)

\* %#v of a complex128 with integral parts
FormatComplex(re, im) ==
    <<"(">> \o FormatInt(re) \o (IF im < 0 THEN <<>> ELSE <<"+">>)
            \o FormatInt(im) \o <<"i", ")">>

\* --------------------------------------------------------------------- types
\* reflect.Type, looked up by name: Kind(), String(), Elem(), Field(i) with
\* its `pretty` tag.
Ty(kind, str, elem, fields) ==
    [kind |-> kind, str |-> str, elem |-> elem, fields |-> fields]

Fld(name, typ, tag) == [name |-> name, typ |-> typ, tag |-> tag]

TypeDesc(t) ==
    CASE t = "invalid" -> Ty("Invalid", <<>>, "", <<>>)
      [] t = "bool" -> Ty("Bool", <<"b", "o", "o", "l">>, "", <<>>)
      [] t = "int" -> Ty("Int", <<"i", "n", "t">>, "", <<>>)
      [] t = "uint" -> Ty("Uint", <<"u", "i", "n", "t">>, "", <<>>)
      [] t = "float64" -> Ty("Float", <<"f", "l", "o", "a", "t", "6", "4">>, "", <<>>)
      [] t = "complex128" -> Ty("Complex", <<"c", "o", "m", "p", "l", "e", "x", "1", "2", "8">>, "", <<>>)
      [] t = "string" -> Ty("String", <<"s", "t", "r", "i", "n", "g">>, "", <<>>)
      [] t = "unsafe.Pointer" -> Ty("UnsafePointer", <<"u", "n", "s", "a", "f", "e", ".", "P", "o", "i", "n", "t", "e", "r">>, "", <<>>)
      [] t = "chan int" -> Ty("Chan", <<"c", "h", "a", "n", " ", "i", "n", "t">>, "int", <<>>)
      [] t = "func()" -> Ty("Func", <<"f", "u", "n", "c", "(", ")">>, "", <<>>)
      [] t = "interface {}" -> Ty("Interface", <<"i", "n", "t", "e", "r", "f", "a", "c", "e", " ", "{", "}">>, "", <<>>)
      [] t = "*int" -> Ty("Ptr", <<"*", "i", "n", "t">>, "int", <<>>)
      [] t = "[]string" -> Ty("Slice", <<"[", "]", "s", "t", "r", "i", "n", "g">>, "string", <<>>)
      [] t = "[]int" -> Ty("Slice", <<"[", "]", "i", "n", "t">>, "int", <<>>)
      [] t = "[2]int" -> Ty("Array", <<"[", "2", "]", "i", "n", "t">>, "int", <<>>)
      [] t = "[]interface {}" -> Ty("Slice", <<"[", "]", "i", "n", "t", "e", "r", "f", "a", "c", "e", " ", "{", "}">>, "interface {}", <<>>)
      [] t = "map[string]int" -> Ty("Map", <<"m", "a", "p", "[", "s", "t", "r", "i", "n", "g", "]", "i", "n", "t">>, "int", <<>>)
      [] t = "map[string]main.P" -> Ty("Map", <<"m", "a", "p", "[", "s", "t", "r", "i", "n", "g", "]", "m", "a", "i", "n", ".", "P">>, "main.P", <<>>)
      [] t = "map[string]interface {}" ->
            Ty("Map", <<"m", "a", "p", "[", "s", "t", "r", "i", "n", "g", "]", "i", "n", "t", "e", "r", "f", "a", "c", "e", " ", "{", "}">>, "interface {}", <<>>)
      [] t = "main.P" ->
            Ty("Struct", <<"m", "a", "i", "n", ".", "P">>, "",
               <<Fld(<<"N", "a", "m", "e">>, "string", <<>>), Fld(<<"A", "g", "e">>, "int", <<>>)>>)
      [] t = "main.PO" ->
            Ty("Struct", <<"m", "a", "i", "n", ".", "P", "O">>, "",
               <<Fld(<<"N", "a", "m", "e">>, "string", <<>>),
                 Fld(<<"A", "g", "e">>, "int", <<",", "o", "m", "i", "t", "e", "m", "p", "t", "y">>)>>)
      [] t = "main.T" ->
            Ty("Struct", <<"m", "a", "i", "n", ".", "T">>, "", <<Fld(<<"S", "e", "l", "f">>, "*main.T", <<>>)>>)
      [] t = "*main.T" -> Ty("Ptr", <<"*", "m", "a", "i", "n", ".", "T">>, "main.T", <<>>)
      [] t = "main.S" ->
            Ty("Struct", <<"m", "a", "i", "n", ".", "S">>, "", <<Fld(<<"S">>, "[]main.S", <<>>)>>)
      [] t = "[]main.S" -> Ty("Slice", <<"[", "]", "m", "a", "i", "n", ".", "S">>, "main.S", <<>>)
      [] t = "main.M" ->
            Ty("Struct", <<"m", "a", "i", "n", ".", "M">>, "", <<Fld(<<"M">>, "map[string]main.M", <<>>)>>)
      [] t = "map[string]main.M" ->
            Ty("Map", <<"m", "a", "p", "[", "s", "t", "r", "i", "n", "g", "]", "m", "a", "i", "n", ".", "M">>, "main.M", <<>>)
      [] t = "main.E" ->
            Ty("Struct", <<"m", "a", "i", "n", ".", "E">>, "",
               <<Fld(<<"A">>, "[]int", <<",", "o", "m", "i", "t", "e", "m", "p", "t", "y">>),
                 Fld(<<"B">>, "[]int", <<>>),
                 Fld(<<"S">>, "string", <<"s", ",", "o", "m", "i", "t", "e", "m", "p", "t", "y">>),
                 Fld(<<"I">>, "interface {}", <<",", "o", "m", "i", "t", "e", "m", "p", "t", "y">>),
                 Fld(<<"Q">>, "*int", <<",", "o", "m", "i", "t", "e", "m", "p", "t", "y">>),
                 Fld(<<"F">>, "bool", <<",", "o", "m", "i", "t", "e", "m", "p", "t", "y">>),
                 Fld(<<"R">>, "main.P", <<"r", "\"", "r", ",", "o", "m", "i", "t", "e", "m", "p", "t", "y">>),
                 Fld(<<"H">>, "string", <<"-">>),
                 Fld(<<"G">>, "string", <<"-", ",", "o", "m", "i", "t", "e", "m", "p", "t", "y">>),
                 Fld(<<"O">>, "map[string]int", <<"o", "m", "i", "t", "e", "m", "p", "t", "y">>)>>)

\* t.String()
TypeString(t) == TypeDesc(t).str

\* -------------------------------------------------------------------- values
\* A location: a heap cell and the path of field/element indices inside it.
\* Cell 0 is no location (a nil reference, a value that is not addressable).
Ref(cell, path) == [cell |-> cell, path |-> path]
NilRef == Ref(0, <<>>)

\* A value as stored: its dynamic type and, by kind, a number (n, m), a
\* string (s), a reference (ref: pointer target, slice backing array, map
\* object) or inline parts (kids: struct fields, array elements, the
\* concrete value held by an interface; a map object alternates key, value).
Mem(typ, n, m, s, ref, kids) ==
    [typ |-> typ, n |-> n, m |-> m, s |-> s, ref |-> ref, kids |-> kids]

InvalidV == Mem("invalid", 0, 0, <<>>, NilRef, <<>>)
BoolV(b) == Mem("bool", IF b THEN 1 ELSE 0, 0, <<>>, NilRef, <<>>)
NumV(typ, n) == Mem(typ, n, 0, <<>>, NilRef, <<>>)
ComplexV(re, im) == Mem("complex128", re, im, <<>>, NilRef, <<>>)
StrV(s) == Mem("string", 0, 0, s, NilRef, <<>>)
RefV(typ, ref) == Mem(typ, 0, 0, <<>>, ref, <<>>)
AggV(typ, kids) == Mem(typ, 0, 0, <<>>, NilRef, kids)
IfaceV(kids) == AggV("interface {}", kids)

\* reflect.Value: the stored value and where it lives (CanAddr, UnsafeAddr)
RV(m, addr) == [m |-> m, addr |-> addr]

Kind(v) == TypeDesc(v.m.typ).kind
CanAddr(v) == v.addr.cell # 0

RECURSIVE Walk(_, _)
Walk(m, path) == IF path = <<>> THEN m ELSE Walk(m.kids[Head(path)], Tail(path))

Deref(h, ref) == Walk(h[ref.cell], ref.path)

\* v.IsNil()
IsNil(v) ==
    CASE Kind(v) \in {"Ptr", "Slice", "Map"} -> v.m.ref.cell = 0
      [] Kind(v) = "Interface" -> v.m.kids = <<>>
      [] Kind(v) \in {"Chan", "Func"} -> v.m.n = 0
      [] OTHER -> FALSE

\* v.Len()
VLen(h, v) ==
    CASE Kind(v) = "String" -> Len(v.m.s)
      [] Kind(v) = "Array" -> Len(v.m.kids)
      [] Kind(v) = "Slice" -> IF IsNil(v) THEN 0 ELSE Len(h[v.m.ref.cell].kids)
      [] Kind(v) = "Map" -> IF IsNil(v) THEN 0 ELSE Len(h[v.m.ref.cell].kids) \div 2
      [] OTHER -> 0

\* v.NumField()
NumField(v) == Len(TypeDesc(v.m.typ).fields)

\* v.Field(i), i from 1
Field(v, i) ==
    RV(v.m.kids[i],
       IF CanAddr(v) THEN Ref(v.addr.cell, Append(v.addr.path, i)) ELSE NilRef)

\* v.Elem() of a pointer (addressable) and of an interface (a copy)
Elem(h, v) ==
    IF Kind(v) = "Ptr" THEN RV(Deref(h, v.m.ref), v.m.ref)
    ELSE RV(v.m.kids[1], NilRef)

\* v.Index(i), i from 1: slice elements are addressable, array elements are
\* when the array is
Index(h, v, i) ==
    IF Kind(v) = "Slice"
    THEN RV(h[v.m.ref.cell].kids[i], Ref(v.m.ref.cell, <<i>>))
    ELSE Field(v, i)

\* keys := v.MapKeys(); keys[i] and v.MapIndex(keys[i]): copies, in the
\* container's iteration order (taken as stable)
MapKeyAt(h, v, i) == RV(h[v.m.ref.cell].kids[2 * i - 1], NilRef)
MapIndex(h, v, i) == RV(h[v.m.ref.cell].kids[2 * i], NilRef)

\* ------------------------------------------------------- field directives
\* strings.Index(s, ","), 0 when absent
IndexOf(s, c) ==
    IF ContainsRune(s, c) THEN CHOOSE i \in DOMAIN s :
                                   s[i] = c /\ \A j \in 1..(i - 1) : s[j] # c
    ELSE 0

parseTag(tag) ==
    LET idx == IndexOf(tag, ",")
    IN  IF idx # 0
        THEN [name |-> SubSeq(tag, 1, idx - 1), opts |-> SubSeq(tag, idx + 1, Len(tag))]
        ELSE [name |-> tag, opts |-> <<>>]

\* tagOptions.Contains
RECURSIVE OptsContains(_, _)
OptsContains(o, optionName) ==
    IF o = <<>> THEN FALSE
    ELSE LET i == IndexOf(o, ",")
             s == IF i # 0 THEN SubSeq(o, 1, i - 1) ELSE o
             next == IF i # 0 THEN SubSeq(o, i + 1, Len(o)) ELSE <<>>
         IN  IF s = optionName THEN TRUE ELSE OptsContains(next, optionName)

Letters ==
    {"a", "b", "c", "d", "e", "f", "g", "h", "i", "j", "k", "l", "m", "n", "o",
     "p", "q", "r", "s", "t", "u", "v", "w", "x", "y", "z",
     "A", "B", "C", "D", "E", "F", "G", "H", "I", "J", "K", "L", "M", "N", "O",
     "P", "Q", "R", "S", "T", "U", "V", "W", "X", "Y", "Z"}

Digits == {"0", "1", "2", "3", "4", "5", "6", "7", "8", "9"}

TagPunct ==
    {"!", "#", "$", "%", "&", "(", ")", "*", "+", "-", ".", "/", ":", "<", "=",
     ">", "?", "@", "[", "]", "^", "_", "{", "|", "}", "~", " "}

isValidTag(s) ==
    s # <<>> /\ \A i \in DOMAIN s : s[i] \in TagPunct \cup Letters \cup Digits

\* getField: a non-nil interface field is replaced by the value it holds
getField(h, v, i) ==
    LET val == Field(v, i)
    IN  IF Kind(val) = "Interface" /\ ~IsNil(val) THEN Elem(h, val) ELSE val

\* faulty variant of isEmptyValue: a zero number or false counts as empty
isEmptyValueZero(h, v) ==
    CASE Kind(v) \in {"Array", "Map", "Slice", "String"} -> VLen(h, v) = 0
      [] Kind(v) \in {"Interface", "Ptr"} -> IsNil(v)
      [] Kind(v) \in {"Bool", "Int", "Uint", "Float"} -> v.m.n = 0
      [] OTHER -> FALSE

isEmptyValue(h, v) ==
    CASE Kind(v) \in {"Array", "Map", "Slice", "String"} -> VLen(h, v) = 0
      [] Kind(v) \in {"Interface", "Ptr"} -> IsNil(v)
      [] OTHER -> FALSE

\* nonzero (its file is not part of the sources at hand): a value is
\* non-empty unless it is the zero value of its type
RECURSIVE nonzero(_, _)
nonzero(h, v) ==
    CASE Kind(v) \in {"Bool", "Int", "Uint", "Float", "UnsafePointer"} -> v.m.n # 0
      [] Kind(v) = "Complex" -> v.m.n # 0 \/ v.m.m # 0
      [] Kind(v) = "String" -> v.m.s # <<>>
      [] Kind(v) = "Struct" ->
            \E i \in 1..NumField(v) : nonzero(h, getField(h, v, i))
      [] Kind(v) = "Array" ->
            \E i \in 1..Len(v.m.kids) : nonzero(h, Index(h, v, i))
      [] Kind(v) \in {"Map", "Interface", "Slice", "Ptr", "Chan", "Func"} -> ~IsNil(v)
      [] OTHER -> TRUE

\* ------------------------------------------------------------ state
VARIABLES
    humanize,             \* var humanize
    newlineAfterItems,    \* var newlineAfterItems
    currOutputLine,       \* var currOutputLine
    sawCloseBracketLast,  \* var sawCloseBracketLast
    out,                  \* bytes handed to the printer's writers in this call
    outInd,               \* per byte: nesting of indent() scopes of its writer
    stack,                \* active printValue calls, innermost last
    visited,              \* p.visited of the running call
    phase,                \* "idle", "running", "done", "crashed"
    input,                \* name of the value being (or last) rendered
    renders,              \* number of Format calls so far
    cfgAtCall,            \* <<humanize, newlineAfterItems>> when Format began
    prevSame,             \* the call before rendered the same input, same config
    prevOut,              \* and wrote this
    clean                 \* what a first, structured call wrote, kept for comparison

vars ==
    <<humanize, newlineAfterItems, currOutputLine, sawCloseBracketLast, out,
      outInd, stack, visited, phase, input, renders, cfgAtCall, prevSame, prevOut,
      clean>>

\* ------------------------------------------------------------ classifiers
\* faulty variant of canExpand: owning references are left out
canExpandNoPtr(t) ==
    TypeDesc(t).kind \in {"Map", "Struct", "Interface", "Array", "Slice"}

canExpand(t) ==
    TypeDesc(t).kind \in {"Map", "Struct", "Interface", "Array", "Slice", "Ptr"}

canInline(t) ==
    IF humanize THEN FALSE
    ELSE CASE TypeDesc(t).kind = "Map" -> ~canExpand(TypeDesc(t).elem)
           [] TypeDesc(t).kind = "Struct" ->
                 \A i \in DOMAIN TypeDesc(t).fields : ~canExpand(TypeDesc(t).fields[i].typ)
           [] TypeDesc(t).kind = "Interface" -> FALSE
           [] TypeDesc(t).kind \in {"Array", "Slice"} -> ~canExpand(TypeDesc(t).elem)
           [] TypeDesc(t).kind = "Ptr" -> FALSE
           [] TypeDesc(t).kind \in {"Chan", "Func", "UnsafePointer"} -> FALSE
           [] OTHER -> TRUE

labelType(t) == TypeDesc(t).kind \in {"Interface", "Struct"}

\* ------------------------------------------------------------ writes
\* The writer state threaded through the writes of one step.
Cur ==
    [out |-> out, ind |-> outInd, line |-> currOutputLine, saw |-> sawCloseBracketLast]

Emit(w, lvl, s) ==
    [w EXCEPT !.out = @ \o s, !.ind = @ \o [i \in 1..Len(s) |-> lvl]]

\* fmt.Fprintf(p, ...): straight to the writer, past the layout tracker
Fprintf(w, lvl, s) == Emit(w, lvl, s)

writeByte(w, lvl, b) ==
    IF humanize /\ b \in {"{", "}"}
    THEN [w EXCEPT !.saw = IF b = "}" THEN @ + 1 ELSE @]
    ELSE [Emit(w, lvl, <<b>>) EXCEPT
              !.line = IF humanize
                       THEN (IF b = "\n" THEN <<>> ELSE w.line \o <<b>>)
                       ELSE @,
              !.saw = 0]

\* faulty variant of writeString: the pending line is tracked in both modes
writeStringAlways(w, lvl, s) ==
    [Emit(w, lvl, s) EXCEPT !.saw = IF humanize /\ s # <<>> THEN 0 ELSE @,
                            !.line = LastLine(s)]

writeString(w, lvl, s) ==
    IF humanize
    THEN [Emit(w, lvl, s) EXCEPT !.saw = IF s # <<>> THEN 0 ELSE @,
                                 !.line = LastLine(s)]
    ELSE Emit(w, lvl, s)

\* faulty variant of printInline: the type name is never written
printInlineBare(w, lvl, t, lit, showType) ==
    LET w1 == IF humanize /\ OnlySpace(lit)
              THEN Fprintf(w, lvl, <<"\"">> \o lit \o <<"\"">>)
              ELSE Fprintf(w, lvl, lit)
    IN  IF humanize THEN [w1 EXCEPT !.line = LastLine(lit)] ELSE w1

\* printer.printInline, lit being fmt.Sprintf("%#v", x)
printInline(w, lvl, t, lit, showType) ==
    IF showType /\ ~humanize
    THEN Fprintf(writeString(w, lvl, TypeString(t)), lvl, <<"(">> \o lit \o <<")">>)
    ELSE LET w1 == IF humanize /\ OnlySpace(lit)
                   THEN Fprintf(w, lvl, <<"\"">> \o lit \o <<"\"">>)
                   ELSE Fprintf(w, lvl, lit)
         IN  IF humanize THEN [w1 EXCEPT !.line = LastLine(lit)] ELSE w1

\* printer.fmtString
fmtString(w, lvl, s, quote) ==
    writeString(w, lvl, IF quote \/ (humanize /\ OnlySpace(s)) THEN Quote(s) ELSE s)

indentNeeded(w) == IF ~humanize THEN TRUE ELSE ContainsRune(w.line, ":")

newlineNeeded(w) == w.saw = 0 \/ (newlineAfterItems /\ w.saw = 2)

\* ------------------------------------------------------------ inputs
\* Length of the chain of records linked by owning references, and number
\* of record levels of the record nested through slices.
ChainLen == 12
NestLen == 12

In(heap, root, quote) == [heap |-> heap, root |-> root, quote |-> quote]

PersonV(name, age) == AggV("main.P", <<StrV(name), NumV("int", age)>>)

SelfV == AggV("main.T", <<RefV("*main.T", Ref(1, <<>>))>>)

ChainHeap ==
    [c \in 1..ChainLen |->
        AggV("main.T", <<RefV("*main.T", IF c < ChainLen THEN Ref(c + 1, <<>>) ELSE NilRef)>>)]

NestV(c) ==
    AggV("main.S", <<RefV("[]main.S", IF c < NestLen THEN Ref(c, <<>>) ELSE NilRef)>>)

NestHeap == [c \in 1..(NestLen - 1) |-> AggV("[]main.S", <<NestV(c + 1)>>)]

OmitHeap ==
    <<AggV("[]int", <<>>), AggV("[]int", <<NumV("int", 1)>>), NumV("int", 3),
      AggV("map[string]int", <<StrV(<<"k", "1">>), NumV("int", 1)>>)>>

\* a := &T{}; b := &T{Self: a}; []interface{}{a, b}: a is shared, nothing cyclic
SharedHeap ==
    <<AggV("main.T", <<RefV("*main.T", NilRef)>>),
      AggV("main.T", <<RefV("*main.T", Ref(1, <<>>))>>),
      AggV("[]interface {}",
           <<IfaceV(<<RefV("*main.T", Ref(1, <<>>))>>),
             IfaceV(<<RefV("*main.T", Ref(2, <<>>))>>)>>)>>

\* formatter{x, quote}: the value handed to Format, with the heap it points into
Input(name) ==
    CASE name = "bool" -> In(<<>>, BoolV(TRUE), TRUE)
      [] name = "int" -> In(<<>>, NumV("int", 5), TRUE)
      [] name = "uint" -> In(<<>>, NumV("uint", 255), TRUE)
      [] name = "float" -> In(<<>>, NumV("float64", 15), TRUE)
      [] name = "complex" -> In(<<>>, ComplexV(1, 2), TRUE)
      [] name = "string" -> In(<<>>, StrV(<<"e", "d">>), TRUE)
      [] name = "rawstring" -> In(<<>>, StrV(<<"e", "d">>), FALSE)
      [] name = "blank" -> In(<<>>, StrV(<<" ">>), FALSE)
      [] name = "unsafe" -> In(<<>>, NumV("unsafe.Pointer", 16), TRUE)
      [] name = "chan" -> In(<<>>, NumV("chan int", 32), TRUE)
      [] name = "func" -> In(<<>>, NumV("func()", 48), TRUE)
      [] name = "nil" -> In(<<>>, InvalidV, TRUE)
      [] name = "emptystr" ->
            In(<<AggV("[]string", <<StrV(<<>>)>>)>>, RefV("[]string", Ref(1, <<>>)), TRUE)
      [] name = "ifaces" ->
            In(<<AggV("[]interface {}",
                      <<IfaceV(<<StrV(<<"a">>)>>), IfaceV(<<>>), IfaceV(<<NumV("int", 7)>>)>>)>>,
               RefV("[]interface {}", Ref(1, <<>>)), TRUE)
      [] name = "nilslice" -> In(<<>>, RefV("[]int", NilRef), TRUE)
      [] name = "array" -> In(<<>>, AggV("[2]int", <<NumV("int", 1), NumV("int", 2)>>), TRUE)
      [] name = "person" -> In(<<>>, PersonV(<<"e", "d">>, 0), TRUE)
      [] name = "zero" -> In(<<>>, PersonV(<<>>, 0), TRUE)
      [] name = "personomit" ->
            In(<<>>, AggV("main.PO", <<StrV(<<"e", "d">>), NumV("int", 0)>>), TRUE)
      [] name = "map3" ->
            In(<<AggV("map[string]int",
                      <<StrV(<<"k", "1">>), NumV("int", 1), StrV(<<"k", "2">>), NumV("int", 2),
                        StrV(<<"k", "3">>), NumV("int", 3)>>)>>,
               RefV("map[string]int", Ref(1, <<>>)), TRUE)
      [] name = "maprec3" ->
            In(<<AggV("map[string]main.P",
                      <<StrV(<<"k", "1">>), PersonV(<<"e", "d">>, 0), StrV(<<"k", "2">>), PersonV(<<"a", "l">>, 1),
                        StrV(<<"k", "3">>), PersonV(<<>>, 0)>>)>>,
               RefV("map[string]main.P", Ref(1, <<>>)), TRUE)
      [] name = "selfptr" -> In(<<SelfV>>, RefV("*main.T", Ref(1, <<>>)), TRUE)
      [] name = "selfval" -> In(<<SelfV>>, SelfV, TRUE)
      [] name = "chainptr" -> In(ChainHeap, RefV("*main.T", Ref(1, <<>>)), TRUE)
      [] name = "chainval" -> In(ChainHeap, ChainHeap[1], TRUE)
      [] name = "slicecycle" ->
            In(<<AggV("[]main.S", <<AggV("main.S", <<RefV("[]main.S", Ref(1, <<>>))>>)>>)>>,
               RefV("[]main.S", Ref(1, <<>>)), TRUE)
      [] name = "mapcycle" ->
            In(<<AggV("map[string]main.M",
                      <<StrV(<<"a">>),
                        AggV("main.M", <<RefV("map[string]main.M", Ref(1, <<>>))>>)>>)>>,
               RefV("map[string]main.M", Ref(1, <<>>)), TRUE)
      [] name = "nested" -> In(NestHeap, NestV(1), TRUE)
      [] name = "shared" -> In(SharedHeap, RefV("[]interface {}", Ref(3, <<>>)), TRUE)
      [] name = "ifacecycle" ->
            In(<<AggV("map[string]interface {}",
                      <<StrV(<<"s", "e", "l", "f">>),
                        IfaceV(<<RefV("map[string]interface {}", Ref(1, <<>>))>>)>>)>>,
               RefV("map[string]interface {}", Ref(1, <<>>)), TRUE)
      [] name = "omitempty" ->
            In(OmitHeap,
               AggV("main.E",
                    <<RefV("[]int", Ref(1, <<>>)), RefV("[]int", Ref(1, <<>>)), StrV(<<>>),
                      IfaceV(<<StrV(<<>>)>>), RefV("*int", NilRef), BoolV(FALSE),
                      PersonV(<<>>, 0), StrV(<<"h">>), StrV(<<>>),
                      RefV("map[string]int", NilRef)>>),
               TRUE)
      [] name = "omitfull" ->
            In(OmitHeap,
               AggV("main.E",
                    <<RefV("[]int", Ref(2, <<>>)), RefV("[]int", Ref(2, <<>>)), StrV(<<"x">>),
                      IfaceV(<<NumV("int", 7)>>), RefV("*int", Ref(3, <<>>)), BoolV(TRUE),
                      PersonV(<<"e", "d">>, 1), StrV(<<"h">>), StrV(<<"g">>),
                      RefV("map[string]int", Ref(4, <<>>))>>),
               TRUE)
      [] name = "omitnil" ->
            In(OmitHeap,
               AggV("main.E",
                    <<RefV("[]int", NilRef), RefV("[]int", NilRef), StrV(<<" ">>),
                      IfaceV(<<>>), RefV("*int", Ref(3, <<>>)), BoolV(FALSE),
                      PersonV(<<>>, 0), StrV(<<>>), StrV(<<"g">>),
                      RefV("map[string]int", Ref(4, <<>>))>>),
               TRUE)

InputNames ==
    {"bool", "int", "uint", "float", "complex", "string", "rawstring", "blank",
     "unsafe", "chan", "func", "nil", "emptystr", "ifaces", "nilslice", "array",
     "person", "zero", "personomit", "map3", "maprec3", "selfptr", "selfval",
     "chainptr", "chainval", "slicecycle", "mapcycle", "nested", "ifacecycle",
     "omitempty", "omitfull", "omitnil", "shared"}

\* the heap the running call reads
H == Input(input).heap

\* ------------------------------------------------------------ printValue
\* One call of printValue: its arguments (v, showType, quote), the printer
\* it runs on (depth, lvl: nesting of its writer), where it stands (pc, loop
\* index i, expand, the level pplvl of pp) and, for stating properties only,
\* the length of out when it was called (mark).
Frame(v, showType, quote, depth, lvl, mark) ==
    [v |-> v, showType |-> showType, quote |-> quote, depth |-> depth,
     lvl |-> lvl, pc |-> "start", i |-> 0, expand |-> FALSE, pplvl |-> lvl,
     mark |-> mark]

Top == stack[Len(stack)]
Rest == SubSeq(stack, 1, Len(stack) - 1)

\* faulty variants of effShowType and effQuote: the flags are not overridden
effShowTypeKept(showType) == showType
effQuoteKept(quote) == quote

\* if humanize { quote = false; showType = false; expand = true }
effShowType(showType) == IF humanize THEN FALSE ELSE showType
effQuote(quote) == IF humanize THEN FALSE ELSE quote

\* faulty variant of depthExceeded: the cap is taken one level too late
depthExceededLate(depth) == depth > DepthLimit + 1

\* p.depth > 10
depthExceeded(depth) == depth > DepthLimit

Running == phase = "running" /\ stack # <<>> /\ Len(stack) <= MaxStack

AtStart(kinds) ==
    /\ Running
    /\ Top.pc = "start"
    /\ ~depthExceeded(Top.depth)
    /\ Kind(Top.v) \in kinds

At(pc) == Running /\ Top.pc = pc

Commit(w, stk, vis) ==
    /\ out' = w.out
    /\ outInd' = w.ind
    /\ currOutputLine' = w.line
    /\ sawCloseBracketLast' = w.saw
    /\ stack' = stk
    /\ visited' = vis
    /\ UNCHANGED <<humanize, newlineAfterItems, phase, input, renders, cfgAtCall,
                   prevSame, prevOut, clean>>

\* the call returns
Return(w) == Commit(w, Rest, visited)

\* the call goes on at pc, with loop index i
Goto(w, pc, i) == Commit(w, Append(Rest, [Top EXCEPT !.pc = pc, !.i = i]), visited)

\* the call calls printValue(v, showType, quote) on a printer of the given
\* depth and writer level, and goes on at pc when it returns
Call(w, pc, v, showType, quote, depth, lvl) ==
    Commit(w,
           Append(Append(Rest, [Top EXCEPT !.pc = pc]),
                  Frame(v, showType, quote, depth, lvl, Len(w.out))),
           visited)

DepthSentinel == <<"!", "%", "v", "(", "D", "E", "P", "T", "H", " ", "E", "X", "C", "E", "E", "D", "E", "D", ")">>

CyclicSentinel(t) == TypeString(t) \o <<"{", "(", "C", "Y", "C", "L", "I", "C", " ", "R", "E", "F", "E", "R", "E", "N", "C", "E", ")", "}">>

DepthExceeded ==
    /\ Running
    /\ Top.pc = "start"
    /\ depthExceeded(Top.depth)
    /\ Return(writeString(Cur, Top.lvl, DepthSentinel))

PrintBool ==
    /\ AtStart({"Bool"})
    /\ Return(printInline(Cur, Top.lvl, Top.v.m.typ, FormatBool(Top.v.m.n = 1),
                          effShowType(Top.showType)))

PrintInt ==
    /\ AtStart({"Int"})
    /\ Return(printInline(Cur, Top.lvl, Top.v.m.typ, FormatInt(Top.v.m.n),
                          effShowType(Top.showType)))

PrintUint ==
    /\ AtStart({"Uint"})
    /\ Return(printInline(Cur, Top.lvl, Top.v.m.typ, FormatUint(Top.v.m.n),
                          effShowType(Top.showType)))

PrintFloat ==
    /\ AtStart({"Float"})
    /\ Return(printInline(Cur, Top.lvl, Top.v.m.typ, FormatFloat(Top.v.m.n),
                          effShowType(Top.showType)))

PrintComplex ==
    /\ AtStart({"Complex"})
    /\ Return(Fprintf(Cur, Top.lvl, FormatComplex(Top.v.m.n, Top.v.m.m)))

PrintString ==
    /\ AtStart({"String"})
    /\ Return(fmtString(Cur, Top.lvl, Top.v.m.s, effQuote(Top.quote)))

PrintUnsafePointer ==
    /\ AtStart({"UnsafePointer"})
    /\ Return(printInline(Cur, Top.lvl, Top.v.m.typ, FormatUint(Top.v.m.n),
                          effShowType(Top.showType)))

PrintChan ==
    /\ AtStart({"Chan"})
    /\ Return(IF effShowType(Top.showType)
              THEN Fprintf(writeString(writeByte(Cur, Top.lvl, "("), Top.lvl,
                                       TypeString(Top.v.m.typ)),
                           Top.lvl, <<")", "(">> \o FormatUint(Top.v.m.n) \o <<")">>)
              ELSE Fprintf(Cur, Top.lvl, FormatUint(Top.v.m.n)))

PrintFunc ==
    /\ AtStart({"Func"})
    /\ Return(writeString(writeString(Cur, Top.lvl, TypeString(Top.v.m.typ)),
                          Top.lvl, <<" ", "{", ".", ".", ".", "}">>))

PrintInvalid ==
    /\ AtStart({"Invalid"})
    /\ Return(writeString(Cur, Top.lvl, <<"n", "i", "l">>))

\* ---- reflect.Interface
InterfaceNil ==
    /\ AtStart({"Interface"})
    /\ IsNil(Top.v)
    /\ Return(writeString(Cur, Top.lvl, <<"n", "i", "l">>))

InterfaceElem ==
    /\ AtStart({"Interface"})
    /\ ~IsNil(Top.v)
    /\ Call(Cur, "ret", Elem(H, Top.v), effShowType(Top.showType), TRUE,
            Top.depth + 1, Top.lvl)

\* ---- reflect.Ptr
PtrNil ==
    /\ AtStart({"Ptr"})
    /\ IsNil(Top.v)
    /\ Return(IF humanize
              THEN writeString(Cur, Top.lvl, <<"n", "i", "l">>)
              ELSE writeString(writeString(writeByte(Cur, Top.lvl, "("), Top.lvl,
                                           TypeString(Top.v.m.typ)),
                               Top.lvl, <<")", "(", "n", "i", "l", ")">>))

PtrElem ==
    /\ AtStart({"Ptr"})
    /\ ~IsNil(Top.v)
    /\ Call(IF ~humanize THEN writeByte(Cur, Top.lvl, "&") ELSE Cur,
            "ret", Elem(H, Top.v), TRUE, TRUE, Top.depth + 1, Top.lvl)

\* the recursive call of the Interface or Ptr case has returned
Unwind ==
    /\ At("ret")
    /\ Return(Cur)

\* expand = !canInline(t); if expand && indentNeeded() { '\n'; pp = p.indent() }
openBlock(w, lvl, t) ==
    LET expand == ~canInline(t)
        indent == expand /\ indentNeeded(w)
    IN  [w |-> IF indent THEN writeByte(w, lvl, "\n") ELSE w,
         expand |-> expand,
         pplvl |-> IF indent THEN lvl + 1 ELSE lvl]

\* the block is not entered: expand keeps its initial value, pp is never made
noBlock(w, lvl) == [w |-> w, expand |-> humanize, pplvl |-> lvl]

\* the call goes on in its block, at pc
Enter(b, pc) ==
    Commit(b.w,
           Append(Rest, [Top EXCEPT !.expand = b.expand, !.pplvl = b.pplvl,
                                    !.pc = pc, !.i = 1]),
           visited)

\* faulty variant of mapSep: the last inline entry gets a separator too
mapSepTrailing(w, lvl, expand, i, n) ==
    IF expand
    THEN IF humanize
         THEN (IF newlineNeeded(w) THEN writeString(w, lvl, <<"\n">>) ELSE w)
         ELSE writeString(w, lvl, <<",", "\n">>)
    ELSE writeString(w, lvl, <<",", " ">>)

\* separator after a map entry
mapSep(w, lvl, expand, i, n) ==
    IF expand
    THEN IF humanize
         THEN (IF newlineNeeded(w) THEN writeString(w, lvl, <<"\n">>) ELSE w)
         ELSE writeString(w, lvl, <<",", "\n">>)
    ELSE IF i < n THEN writeString(w, lvl, <<",", " ">>) ELSE w

\* separator after a record field or a sequence element
itemSep(w, lvl, expand, i, n) ==
    IF humanize
    THEN (IF newlineNeeded(w) THEN writeByte(w, lvl, "\n") ELSE w)
    ELSE IF expand THEN writeString(w, lvl, <<",", "\n">>)
         ELSE IF i < n THEN writeString(w, lvl, <<",", " ">>) ELSE w

\* ---- reflect.Map
MapBegin ==
    /\ AtStart({"Map"})
    /\ LET t == Top.v.m.typ
           w1 == IF effShowType(Top.showType) /\ ~humanize
                 THEN writeString(Cur, Top.lvl, TypeString(t)) ELSE Cur
           w2 == writeByte(w1, Top.lvl, "{")
           enter == nonzero(H, Top.v) \/ humanize
       IN  Enter(IF enter THEN openBlock(w2, Top.lvl, t) ELSE noBlock(w2, Top.lvl),
                 IF enter /\ VLen(H, Top.v) > 0 THEN "mapKey" ELSE "mapEnd")

MapKey ==
    /\ At("mapKey")
    /\ Call(Cur, "mapColon", MapKeyAt(H, Top.v, Top.i), FALSE, TRUE, Top.depth, Top.pplvl)

MapValue ==
    /\ At("mapColon")
    /\ LET w1 == writeByte(Cur, Top.pplvl, ":")
           w2 == IF Top.expand THEN writeByte(w1, Top.pplvl, "\t") ELSE w1
           showTypeInStruct ==
               IF humanize THEN FALSE
               ELSE TypeDesc(TypeDesc(Top.v.m.typ).elem).kind = "Interface"
       IN  Call(w2, "mapSep", MapIndex(H, Top.v, Top.i), showTypeInStruct, TRUE,
                Top.depth, Top.pplvl)

MapSep ==
    /\ At("mapSep")
    /\ Goto(mapSep(Cur, Top.pplvl, Top.expand, Top.i, VLen(H, Top.v)),
            IF Top.i < VLen(H, Top.v) THEN "mapKey" ELSE "mapEnd", Top.i + 1)

MapEnd ==
    /\ At("mapEnd")
    /\ Return(writeByte(Cur, Top.lvl, "}"))

\* ---- reflect.Struct
\* faulty variant of cyclic: the visited entry is never consulted
cyclicNever(vis, v, depth) == FALSE

\* vd, ok := p.visited[vis]; ok && vd < p.depth
cyclic(vis, v, depth) ==
    /\ CanAddr(v)
    /\ \E e \in vis : e.addr = v.addr /\ e.typ = v.m.typ /\ e.depth < depth

\* p.visited[vis] = p.depth
visit(vis, v, depth) ==
    IF CanAddr(v)
    THEN {e \in vis : ~(e.addr = v.addr /\ e.typ = v.m.typ)}
         \cup {[addr |-> v.addr, typ |-> v.m.typ, depth |-> depth]}
    ELSE vis

StructCyclic ==
    /\ AtStart({"Struct"})
    /\ cyclic(visited, Top.v, Top.depth)
    /\ Return(fmtString(Cur, Top.lvl, CyclicSentinel(Top.v.m.typ), FALSE))

StructBegin ==
    /\ AtStart({"Struct"})
    /\ ~cyclic(visited, Top.v, Top.depth)
    /\ LET t == Top.v.m.typ
           w1 == IF effShowType(Top.showType) /\ ~humanize
                 THEN writeString(Cur, Top.lvl, TypeString(t)) ELSE Cur
           w2 == writeByte(w1, Top.lvl, "{")
           enter == nonzero(H, Top.v) \/ humanize
           b == IF enter THEN openBlock(w2, Top.lvl, t) ELSE noBlock(w2, Top.lvl)
       IN  Commit(b.w,
                  Append(Rest, [Top EXCEPT
                                    !.expand = b.expand, !.pplvl = b.pplvl, !.i = 1,
                                    !.pc = IF enter /\ NumField(Top.v) > 0
                                           THEN "field" ELSE "structEnd"]),
                  visit(visited, Top.v, Top.depth))

FieldOf(v, i) == TypeDesc(v.m.typ).fields[i]

\* faulty variant of omitted: the directives are honoured in structured mode too
omittedAlways(h, v, i) ==
    \/ FieldOf(v, i).tag = <<"-">>
    \/ /\ OptsContains(parseTag(FieldOf(v, i).tag).opts,
                       <<"o", "m", "i", "t", "e", "m", "p", "t", "y">>)
       /\ isEmptyValue(h, getField(h, v, i))

\* the two `continue`s of the field loop
omitted(h, v, i) ==
    /\ humanize
    /\ \/ FieldOf(v, i).tag = <<"-">>
       \/ /\ OptsContains(parseTag(FieldOf(v, i).tag).opts, <<"o", "m", "i", "t", "e", "m", "p", "t", "y">>)
          /\ isEmptyValue(h, getField(h, v, i))

\* name := f.Name, or the tag's name when valid (humanize only)
fieldName(v, i) ==
    IF humanize /\ isValidTag(parseTag(FieldOf(v, i).tag).name)
    THEN parseTag(FieldOf(v, i).tag).name
    ELSE FieldOf(v, i).name

NextField == IF Top.i < NumField(Top.v) THEN "field" ELSE "structEnd"

StructSkip ==
    /\ At("field")
    /\ omitted(H, Top.v, Top.i)
    /\ Goto(Cur, NextField, Top.i + 1)

StructField ==
    /\ At("field")
    /\ ~omitted(H, Top.v, Top.i)
    /\ LET w1 == writeByte(writeString(Cur, Top.pplvl, fieldName(Top.v, Top.i)),
                           Top.pplvl, ":")
           w2 == IF Top.expand THEN writeByte(w1, Top.pplvl, "\t") ELSE w1
           showTypeInStruct ==
               IF humanize THEN FALSE ELSE labelType(FieldOf(Top.v, Top.i).typ)
       IN  Call(w2, "fieldSep", getField(H, Top.v, Top.i), showTypeInStruct, TRUE,
                Top.depth, Top.pplvl)

StructSep ==
    /\ At("fieldSep")
    /\ Goto(itemSep(Cur, Top.pplvl, Top.expand, Top.i, NumField(Top.v)),
            NextField, Top.i + 1)

StructEnd ==
    /\ At("structEnd")
    /\ Return(writeByte(Cur, Top.lvl, "}"))

\* ---- reflect.Array, reflect.Slice
SliceNil ==
    /\ AtStart({"Slice"})
    /\ IsNil(Top.v)
    /\ LET w1 == IF effShowType(Top.showType)
                 THEN writeString(Cur, Top.lvl, TypeString(Top.v.m.typ)) ELSE Cur
       IN  Return(IF effShowType(Top.showType)
                  THEN writeString(w1, Top.lvl, <<"(", "n", "i", "l", ")">>)
                  ELSE writeString(w1, Top.lvl, <<"n", "i", "l">>))

SliceBegin ==
    /\ AtStart({"Array", "Slice"})
    /\ ~(Kind(Top.v) = "Slice" /\ IsNil(Top.v))
    /\ LET t == Top.v.m.typ
           w1 == IF effShowType(Top.showType)
                 THEN writeString(Cur, Top.lvl, TypeString(t)) ELSE Cur
           w2 == writeByte(w1, Top.lvl, "{")
       IN  Enter(openBlock(w2, Top.lvl, t),
                 IF VLen(H, Top.v) > 0 THEN "elem" ELSE "sliceEnd")

SliceElem ==
    /\ At("elem")
    /\ Call(Cur, "elemSep", Index(H, Top.v, Top.i),
            TypeDesc(TypeDesc(Top.v.m.typ).elem).kind = "Interface", TRUE,
            Top.depth, Top.pplvl)

SliceSep ==
    /\ At("elemSep")
    /\ Goto(itemSep(Cur, Top.pplvl, Top.expand, Top.i, VLen(H, Top.v)),
            IF Top.i < VLen(H, Top.v) THEN "elem" ELSE "sliceEnd", Top.i + 1)

SliceEnd ==
    /\ At("sliceEnd")
    /\ Return(writeByte(Cur, Top.lvl, "}"))

\* ------------------------------------------------------------ top level
Idle == phase \in {"idle", "done"} /\ renders < MaxRenders

\* nothing kept for comparison
NoClean == [set |-> FALSE, input |-> "nil", out |-> <<>>, line |-> <<>>, saw |-> 0]

\* formatter.Format with the pretty verb: a new printer (depth 0, empty
\* visited) prints reflect.ValueOf(fo.x) with showType true and fo.quote
Render(x) ==
    /\ LET same == phase = "done" /\ x = input
                   /\ cfgAtCall = <<humanize, newlineAfterItems>>
       IN  /\ prevSame' = same
           /\ prevOut' = IF same THEN out ELSE <<>>
    /\ input' = x
    /\ renders' = renders + 1
    /\ cfgAtCall' = <<humanize, newlineAfterItems>>
    /\ phase' = "running"
    /\ out' = <<>>
    /\ outInd' = <<>>
    /\ visited' = {}
    /\ stack' = <<Frame(RV(Input(x).root, NilRef), TRUE, Input(x).quote, 0, 0, 0)>>
    /\ UNCHANGED <<humanize, newlineAfterItems, currOutputLine, sawCloseBracketLast>>

Format(x) ==
    /\ Idle
    /\ Render(x)
    /\ UNCHANGED clean

\* printValue has returned to Format: w.Flush(); return
Returned ==
    /\ phase = "running"
    /\ stack = <<>>
    /\ phase' = "done"
    /\ UNCHANGED <<humanize, newlineAfterItems, currOutputLine, sawCloseBracketLast,
                   out, outInd, stack, visited, input, renders, cfgAtCall,
                   prevSame, prevOut>>

Finish ==
    /\ Returned
    /\ UNCHANGED clean

\* the recursion outgrows the goroutine stack: the runtime ends the process
StackOverflow ==
    /\ phase = "running"
    /\ Len(stack) > MaxStack
    /\ phase' = "crashed"
    /\ UNCHANGED <<humanize, newlineAfterItems, currOutputLine, sawCloseBracketLast,
                   out, outInd, stack, visited, input, renders, cfgAtCall,
                   prevSame, prevOut, clean>>

SetHumanize(b) ==
    /\ Idle
    /\ humanize' = b
    /\ UNCHANGED <<newlineAfterItems, currOutputLine, sawCloseBracketLast, out,
                   outInd, stack, visited, phase, input, renders, cfgAtCall,
                   prevSame, prevOut, clean>>

SetNewlineAfterItems(b) ==
    /\ Idle
    /\ newlineAfterItems' = b
    /\ UNCHANGED <<humanize, currOutputLine, sawCloseBracketLast, out, outInd,
                   stack, visited, phase, input, renders, cfgAtCall, prevSame,
                   prevOut, clean>>

Init ==
    /\ humanize = FALSE
    /\ newlineAfterItems = FALSE
    /\ currOutputLine = <<>>
    /\ sawCloseBracketLast = 0
    /\ out = <<>>
    /\ outInd = <<>>
    /\ stack = <<>>
    /\ visited = {}
    /\ phase = "idle"
    /\ input = "nil"
    /\ renders = 0
    /\ cfgAtCall = <<FALSE, FALSE>>
    /\ prevSame = FALSE
    /\ prevOut = <<>>
    /\ clean = NoClean

\* one step of the running printValue call
printValue ==
    \/ DepthExceeded
    \/ PrintBool
    \/ PrintInt
    \/ PrintUint
    \/ PrintFloat
    \/ PrintComplex
    \/ PrintString
    \/ PrintUnsafePointer
    \/ PrintChan
    \/ PrintFunc
    \/ PrintInvalid
    \/ InterfaceNil
    \/ InterfaceElem
    \/ PtrNil
    \/ PtrElem
    \/ Unwind
    \/ MapBegin
    \/ MapKey
    \/ MapValue
    \/ MapSep
    \/ MapEnd
    \/ StructCyclic
    \/ StructBegin
    \/ StructSkip
    \/ StructField
    \/ StructSep
    \/ StructEnd
    \/ SliceNil
    \/ SliceBegin
    \/ SliceElem
    \/ SliceSep
    \/ SliceEnd

Step ==
    \/ printValue
    \/ Finish
    \/ StackOverflow

Next ==
    \/ \E x \in InputNames : Format(x)
    \/ \E b \in BOOLEAN : SetHumanize(b)
    \/ \E b \in BOOLEAN : SetNewlineAfterItems(b)
    \/ Step

Spec == Init /\ [][Next]_vars

\* a running call is never suspended: it takes its next step
FairSpec == Spec /\ WF_vars(Step)

\* ---- the same program, with the output of a first structured call kept
\* A first call in structured mode runs with the layout tracker as the
\* package initialises it.  What it wrote is kept through one humanize
\* render (which leaves the tracker as it may) and into a structured render
\* of the same value, whose tracker at its start is noted in line and saw.
FormatTracked(x) ==
    /\ Idle
    /\ Render(x)
    /\ clean' =
          IF clean.set /\ renders = 1 /\ humanize
          THEN clean
          ELSE IF clean.set /\ renders = 2 /\ ~humanize /\ x = clean.input
          THEN [clean EXCEPT !.line = currOutputLine, !.saw = sawCloseBracketLast]
          ELSE NoClean

FinishTracked ==
    /\ Returned
    /\ clean' =
          IF renders = 1 /\ ~cfgAtCall[1]
          THEN [set |-> TRUE, input |-> input, out |-> out, line |-> <<>>, saw |-> 0]
          ELSE clean

NextTracked ==
    \/ \E x \in InputNames : FormatTracked(x)
    \/ \E b \in BOOLEAN : SetHumanize(b)
    \/ \E b \in BOOLEAN : SetNewlineAfterItems(b)
    \/ printValue
    \/ FinishTracked
    \/ StackOverflow

SpecTracked == Init /\ [][NextTracked]_vars

\* ============================================================ properties
\* bytes written by the step being taken
Written == SubSeq(out', Len(out) + 1, Len(out'))

Count(s, sub) == Cardinality(Occurrences(s, sub))

\* the running or finished call began in humanize mode (the flag cannot
\* change while a call runs)
Humanized == cfgAtCall[1]

CyclicInputs == {"selfptr", "selfval", "slicecycle", "mapcycle", "ifacecycle"}
AcyclicInputs == InputNames \ CyclicInputs

\* C1: two consecutive render calls on the same finite acyclic input under
\* the same configuration write the same bytes, in structured mode and in
\* humanize mode.
C1_Determinism ==
    (phase = "done" /\ prevSame /\ input \in AcyclicInputs) => out = prevOut

\* C2: rendering a self-referential record, passed by reference or by
\* value, terminates (the recursion stops at the second visit of the record:
\* it is never more than five calls deep and never outgrows the stack), and
\* the finished output holds exactly one cyclic-reference sentinel.
SelfRefInputs == {"selfptr", "selfval"}

C2_SelfRefOneSentinel ==
    input \in SelfRefInputs =>
        /\ phase # "crashed"
        /\ Len(stack) <= 5
        /\ phase = "done" => Count(out, CyclicSentinel("main.T")) = 1

C2_Witness ==
    /\ phase = "done"
    /\ input = "selfval"
    /\ Count(out, CyclicSentinel("main.T")) = 1

\* C3: every render call runs to completion, also on a value graph whose
\* cycle passes through sequences or maps of records: the recursion never
\* outgrows the stack.
C3_RunsToCompletion == phase # "crashed"

\* records being rendered (past the depth check), one inside the other
RecordLevels ==
    Cardinality({k \in DOMAIN stack : Kind(stack[k].v) = "Struct" /\ stack[k].pc # "start"})

\* owning references dereferenced and interface values unwrapped by the
\* calls below call k
Indirections(k) ==
    Cardinality({j \in 1..(k - 1) : Kind(stack[j].v) \in {"Ptr", "Interface"}})

\* C4 as stated: of records nested one inside the other, in whatever way
\* (direct field, owning reference, tagged union, sequence or map element),
\* levels 1 to 10 render normally and no 11th level is ever rendered.
C4_Original == input \in AcyclicInputs => RecordLevels <= DepthLimit

\* C4, amended: the depth of a call is the number of owning references
\* dereferenced and of interface values unwrapped by printValue's Interface
\* case on the way to it (record fields, sequence and map elements do not
\* count); a call of depth 11 writes the depth-exceeded sentinel and
\* returns at once, so no call is deeper; every call of depth 0 to 10 goes
\* on to its kind's rendering.  For the chain of records linked by owning
\* references: passed by reference, records 1 to 10 are rendered and the
\* 11th is replaced by the sentinel; passed by value, records 1 to 11 are
\* rendered and the 12th is replaced.
C4_DepthCounted ==
    \A k \in DOMAIN stack :
        /\ stack[k].depth = Indirections(k)
        /\ stack[k].depth <= DepthLimit + 1
        /\ stack[k].depth > DepthLimit => k = Len(stack) /\ stack[k].pc = "start"

C4_SentinelStep ==
    (Running /\ Top.pc = "start") =>
        IF Top.depth > DepthLimit
        THEN Written = DepthSentinel /\ stack' = Rest
        ELSE Written # DepthSentinel

C4_Chain ==
    (phase = "done" /\ ~Humanized) =>
        /\ input = "chainptr" =>
              /\ Count(out, <<"m", "a", "i", "n", ".", "T", "{">>) = DepthLimit
              /\ Count(out, DepthSentinel) = 1
        /\ input = "chainval" =>
              /\ Count(out, <<"m", "a", "i", "n", ".", "T", "{">>) = DepthLimit + 1
              /\ Count(out, DepthSentinel) = 1

C4_DepthCap == [](C4_DepthCounted /\ C4_Chain) /\ [][C4_SentinelStep]_vars

C4_Witness ==
    /\ phase = "done"
    /\ input = "chainptr"
    /\ ~Humanized
    /\ Count(out, DepthSentinel) = 1
    /\ Count(out, <<"m", "a", "i", "n", ".", "T", "{">>) = DepthLimit

PrimitiveKinds == {"Bool", "Int", "Uint", "Float", "Complex", "String", "UnsafePointer"}

\* the kinds printValue hands to printInline
InlineKinds == {"Bool", "Int", "Uint", "Float", "UnsafePointer"}

\* what fmt's %#v gives for the scalar held by v
Literal(v) ==
    CASE Kind(v) = "Bool" -> FormatBool(v.m.n = 1)
      [] Kind(v) = "Int" -> FormatInt(v.m.n)
      [] Kind(v) \in {"Uint", "UnsafePointer"} -> FormatUint(v.m.n)
      [] Kind(v) = "Float" -> FormatFloat(v.m.n)
      [] Kind(v) = "Complex" -> FormatComplex(v.m.n, v.m.m)
      [] OTHER -> v.m.s

TypeNames ==
    {"bool", "int", "uint", "float64", "complex128", "string", "unsafe.Pointer",
     "chan int", "func()", "interface {}", "*int", "[]string", "[]int", "[2]int",
     "[]interface {}", "map[string]int", "map[string]main.P",
     "map[string]interface {}", "main.P", "main.PO", "main.T", "*main.T", "main.S",
     "[]main.S", "main.M", "map[string]main.M", "main.E"}

\* C6 as stated: in humanize mode the output never contains a declared type
\* name and never contains a quoted string, for values of every kind.
C6_Original ==
    Humanized =>
        /\ \A t \in TypeNames : ~Contains(out, TypeString(t))
        /\ ~ContainsRune(out, "\"")

\* C6, amended: in humanize mode printValue overrides the showType and quote
\* flags it is called with, so a type name is written only for a Function
\* value (its type, then " {...}") and inside a cyclic-reference sentinel,
\* and a string is quoted only when it is non-empty and all white space.
C6_NoTypeNames ==
    Humanized =>
        \A t \in TypeNames :
            TypeDesc(t).kind # "Func" =>
                Count(out, TypeString(t)) = Count(out, CyclicSentinel(t))

C6_QuoteStep ==
    (Running /\ humanize) =>
        /\ ContainsRune(Written, "\"") =>
              /\ AtStart({"String"})
              /\ OnlySpace(Top.v.m.s)
              /\ Written = Quote(Top.v.m.s)
        /\ AtStart({"String"}) /\ ~OnlySpace(Top.v.m.s) => Written = Top.v.m.s

C6_HumanizeOverride == []C6_NoTypeNames /\ [][C6_QuoteStep]_vars

C6_Witness ==
    /\ phase = "done"
    /\ Humanized
    /\ input = "ifaces"
    /\ out = <<"a", "\n", "n", "i", "l", "\n", "7", "\n">>

\* the step being taken leaves the field loop's current field unrendered
FieldSkipped == Len(stack') = Len(stack)

CarriesOmitEmpty(v, i) == OptsContains(parseTag(FieldOf(v, i).tag).opts, <<"o", "m", "i", "t", "e", "m", "p", "t", "y">>)

\* C7: in humanize mode a field (not one tagged "-") is skipped exactly when
\* its directive carries omitempty and its value is empty: zero length for
\* a sequence, map or string, null for an owning reference or a tagged
\* union; a non-null tagged union is never skipped.
C7_OmitExactly ==
    [][(At("field") /\ humanize /\ FieldOf(Top.v, Top.i).tag # <<"-">>) =>
         (FieldSkipped <=>
              CarriesOmitEmpty(Top.v, Top.i) /\ isEmptyValue(H, Field(Top.v, Top.i)))]_vars

\* C8 as stated: {Name: "ed", Age: 0} with Age tagged `,omitempty`, in
\* humanize mode, renders the Name line only; there is no Age line.
C8_Original ==
    (phase = "done" /\ Humanized /\ input = "personomit") =>
        /\ Contains(out, <<"N", "a", "m", "e", ":", "\t", "e", "d", "\n">>)
        /\ ~Contains(out, <<"A", "g", "e", ":">>)

\* C8, amended: the output holds the Name line (Name, colon, tab, ed:
\* unquoted, untyped) and after it the Age line (Age, colon, tab, 0): an
\* integer is never empty, so omitempty does not skip Age.
C8_BothLines ==
    (phase = "done" /\ Humanized /\ input = "personomit") =>
        out = <<"N", "a", "m", "e", ":", "\t", "e", "d", "\n", "A", "g", "e", ":", "\t", "0", "\n">>

C8_Witness ==
    /\ phase = "done"
    /\ Humanized
    /\ input = "personomit"
    /\ Contains(out, <<"A", "g", "e", ":", "\t", "0", "\n">>)

\* text written since the innermost call began
SinceCall == SubSeq(out, Top.mark + 1, Len(out))

\* every declared field of the record of the innermost call appears in the
\* text that call has written, as its declared name and a colon
AllFieldsNamed ==
    \A i \in 1..NumField(Top.v) : Contains(SinceCall, FieldOf(Top.v, i).name \o <<":">>)

C9_FieldsAtEnd ==
    (At("structEnd") /\ ~humanize) =>
        IF nonzero(H, Top.v) THEN AllFieldsNamed
        ELSE SinceCall \in {<<"{">>, TypeString(Top.v.m.typ) \o <<"{">>}

C9_FieldStep ==
    (At("field") /\ ~humanize) =>
        /\ Written = FieldOf(Top.v, Top.i).name \o <<":">>
                     \o (IF Top.expand THEN <<"\t">> ELSE <<>>)
        /\ Len(stack') = Len(stack) + 1
        /\ stack'[Len(stack')].v = getField(H, Top.v, Top.i)
        /\ stack'[Len(stack')].pc = "start"

C10_Original ==
    (phase = "done" /\ ~Humanized /\ input = "map3") =>
        out = <<"m", "a", "p", "[", "s", "t", "r", "i", "n", "g", "]", "i", "n", "t", "{", "\"", "k", "1", "\"", ":", " ", "1", ",", " ", "\"", "k", "2", "\"", ":", " ", "2", ",", " ", "\"", "k", "3", "\"", ":", " ", "3", "}">>

\* C10, amended: it is written on one line as its type name and
\* {"k1":1, "k2":2, "k3":3}: nothing between a key's colon and its value,
\* ", " between entries, none after the last, no newline.  With a
\* record-typed value the map is written expanded: a newline after {, each
\* entry through the indented writer as key, colon, tab, value, ",\n", and
\* then } through the outer writer.
C10_MapLayout ==
    (phase = "done" /\ ~Humanized) =>
        /\ input = "map3" =>
              /\ out = <<"m", "a", "p", "[", "s", "t", "r", "i", "n", "g", "]", "i", "n", "t", "{", "\"", "k", "1", "\"", ":", "1", ",", " ", "\"", "k", "2", "\"", ":", "2", ",", " ", "\"", "k", "3", "\"", ":", "3", "}">>
              /\ \A k \in DOMAIN outInd : outInd[k] = 0
        /\ input = "maprec3" =>
              /\ out = <<"m", "a", "p", "[", "s", "t", "r", "i", "n", "g", "]", "m", "a", "i", "n", ".", "P", "{", "\n">>
                       \o <<"\"", "k", "1", "\"", ":", "\t", "{", "N", "a", "m", "e", ":", "\"", "e", "d", "\"", ",", " ", "A", "g", "e", ":", "0", "}", ",", "\n">>
                       \o <<"\"", "k", "2", "\"", ":", "\t", "{", "N", "a", "m", "e", ":", "\"", "a", "l", "\"", ",", " ", "A", "g", "e", ":", "1", "}", ",", "\n">>
                       \o <<"\"", "k", "3", "\"", ":", "\t", "{", "}", ",", "\n">>
                       \o <<"}">>
              /\ \A k \in DOMAIN outInd :
                    outInd[k] = IF k <= Len(<<"m", "a", "p", "[", "s", "t", "r", "i", "n", "g", "]", "m", "a", "i", "n", ".", "P", "{", "\n">>) \/ k = Len(out)
                                THEN 0 ELSE 1

C10_Witness ==
    /\ phase = "done"
    /\ ~Humanized
    /\ input = "maprec3"
    /\ Count(out, <<",", "\n">>) = 3

\* C11: in humanize mode a field whose directive name (the tag up to its
\* first comma) is "-" is never rendered, whatever options follow the name
\* and whatever the field holds.
C11_DashNeverRendered ==
    [][(At("field") /\ humanize /\ parseTag(FieldOf(Top.v, Top.i).tag).name = <<"-">>)
          => FieldSkipped]_vars

\* the step being taken is a recursive call of printValue
Descends == Running /\ Len(stack') = Len(stack) + 1

\* the step being taken dereferences an owning reference or unwraps the
\* concrete value behind an interface value: in the Ptr case, in the
\* Interface case, or in getField for a field of interface type
Unwraps ==
    \/ AtStart({"Ptr", "Interface"}) /\ ~IsNil(Top.v)
    \/ /\ At("field")
       /\ Kind(Field(Top.v, Top.i)) = "Interface"
       /\ ~IsNil(Field(Top.v, Top.i))

\* C12: along every recursion path the depth never decreases on descent,
\* it increases by exactly 1 with every owning reference dereferenced and
\* every interface value unwrapped, a record field of interface type
\* included, and the depths of the calls below the innermost one never
\* change (so a caller finds its depth unchanged when its callee returns).
C12_DepthInvariant ==
    [][/\ Descends =>
            /\ stack'[Len(stack')].depth >= Top.depth
            /\ Unwraps => stack'[Len(stack')].depth = Top.depth + 1
       /\ Running =>
            \A k \in DOMAIN stack : k \in DOMAIN stack' => stack'[k].depth = stack[k].depth]_vars

\* C13: in humanize mode currOutputLine is the text sent to the sink since
\* the last newline sent: over every step of printValue it becomes the
\* trailing line of what it was followed by what the step wrote (a newline
\* clears it, any other text written is appended to it).
C13_PendingLine ==
    [][(Running /\ humanize) =>
          currOutputLine' = LastLine(currOutputLine \o Written)]_vars

\* the step being taken is the write of a closing bracket
ClosesBracket == Running /\ Top.pc \in {"structEnd", "mapEnd", "sliceEnd"}

\* C14: in humanize mode sawCloseBracketLast counts the consecutive
\* suppressed closing brackets since the last write of other content: a
\* step that writes content of any kind (field name, newline, string,
\* boolean, number, channel handle) leaves it 0, a suppressed closing
\* bracket adds 1 to it, and nothing else changes it; so it is 0 whenever a
\* scalar has just been written.
C14_CloseBracketCounter ==
    [][(Running /\ humanize) =>
          sawCloseBracketLast' =
              IF Written # <<>> THEN 0
              ELSE IF ClosesBracket THEN sawCloseBracketLast + 1
              ELSE sawCloseBracketLast]_vars

\* "expandable", as the classifier's contract words it
Expandable(t) ==
    TypeDesc(t).kind \in {"Map", "Struct", "Interface", "Array", "Slice", "Ptr"}

\* the contract's table for a type t in structured mode, from one level of
\* static type; rawAddress is what it gives for a RawAddress type
Inlinable(t, rawAddress) ==
    LET d == TypeDesc(t)
    IN  CASE d.kind = "Map" -> ~Expandable(d.elem)
          [] d.kind = "Struct" -> \A i \in DOMAIN d.fields : ~Expandable(d.fields[i].typ)
          [] d.kind \in {"Array", "Slice"} -> ~Expandable(d.elem)
          [] d.kind \in {"Interface", "Ptr", "Chan", "Func"} -> FALSE
          [] d.kind = "UnsafePointer" -> rawAddress
          [] d.kind \in {"Bool", "Int", "Uint", "Float", "Complex", "String"} -> TRUE

Classified(rawAddress) ==
    \A t \in TypeNames :
        /\ canExpand(t) = Expandable(t)
        /\ canInline(t) = IF humanize THEN FALSE ELSE Inlinable(t, rawAddress)

\* C15 as stated: in structured mode canInline is true for a Map, Record or
\* Sequence exactly when no value / field / element type is expandable,
\* false for TaggedUnion, OwningReference, Channel and Function types, and
\* true for every other (scalar) type; in humanize mode it is false for
\* every type.
C15_Original == Classified(TRUE)

\* C15, amended: the same, with canInline false for RawAddress types too
\* (true for Bool, Integer, Unsigned, Float, Complex and String types); and
\* a map, record or sequence whose block is entered is expanded exactly
\* when canInline is false for its type.
C15_Table == Classified(FALSE)

C15_BlockStep ==
    (/\ AtStart({"Map", "Struct", "Array", "Slice"})
     /\ Len(stack') = Len(stack)
     /\ stack'[Len(stack')].pc \in {"mapKey", "field", "elem"}) =>
        stack'[Len(stack')].expand =
            (humanize \/ ~Inlinable(Top.v.m.typ, FALSE))

C15_Classifier == []C15_Table /\ [][C15_BlockStep]_vars

C15_Witness ==
    /\ At("mapKey")
    /\ ~humanize
    /\ input = "map3"
    /\ ~Top.expand
    /\ canInline("map[string]int")
    /\ ~canInline("map[string]main.P")
    /\ ~canInline("unsafe.Pointer")

\* the record of the innermost call is being rendered by a call below it
OnActivePath ==
    \E k \in 1..(Len(stack) - 1) :
        /\ Kind(stack[k].v) = "Struct"
        /\ stack[k].pc # "start"
        /\ stack[k].v.addr = Top.v.addr
        /\ stack[k].v.m.typ = Top.v.m.typ

NoSentinel == \A t \in TypeNames : ~Contains(out, CyclicSentinel(t))

\* C16: the output for a finite acyclic value graph, shared records
\* included, holds no cyclic-reference sentinel; a sentinel is written only
\* for a record that a call on the active recursion path is rendering.
C16_SentinelFree == input \in AcyclicInputs => NoSentinel

C16_SentinelStep ==
    (Running /\ \E t \in TypeNames : Contains(Written, CyclicSentinel(t))) =>
        (AtStart({"Struct"}) /\ CanAddr(Top.v) /\ OnActivePath)

C16_NoFalseCycle == []C16_SentinelFree /\ [][C16_SentinelStep]_vars

\* C17: with humanize off, what a render call writes does not depend on
\* the layout tracker it starts with: a structured render that starts with
\* whatever an earlier humanize render left in currOutputLine and
\* sawCloseBracketLast writes the bytes that the same value's render wrote
\* when it started with the initial tracker; and no step of a structured
\* render changes currOutputLine.
C17_SameBytes ==
    (phase = "done" /\ ~Humanized /\ clean.set /\ input = clean.input) => out = clean.out

C17_LineKept == (Running /\ ~humanize) => currOutputLine' = currOutputLine

C17_TrackerIndependent == []C17_SameBytes /\ [][C17_LineKept]_vars

C17_Witness ==
    /\ phase = "done"
    /\ ~Humanized
    /\ renders = 3
    /\ clean.set
    /\ input = "maprec3"
    /\ clean.saw > 0
    /\ out = clean.out

====
